---- MODULE Spec2Model ----
(***************************************************************************)
(* A model of the Amazon product scraper (src/scraper.py):                 *)
(*   - AmazonScraper.scrape, the pagination loop with its exception        *)
(*     handlers and its finally block (specification Spec);                *)
(*   - save_to_db over an SQLite store with a UNIQUE product_url column,   *)
(*     called twice in a row (SpecStore) and by two concurrent writers     *)
(*     (SpecConc);                                                         *)
(*   - format_price applied to an extracted price text (SpecPrice).        *)
(***************************************************************************)
EXTENDS Integers, Sequences, FiniteSets, TLC

\* ------------------------------------------------------------------ bounds
\* The longest list of listing nodes an arbitrary result page holds.
MaxNodes == 2
\* The largest CONFIG["max_products"] of an arbitrary run.
MaxProducts == 2
\* The largest CONFIG["max_pages"] of a run.
MaxPages == 3
\* The longest list of records one save_to_db call is given.
MaxBatch == 2
\* The most rows the products table holds before the first call.
MaxRows == 1
\* The longest raw price text.
MaxLen == 3

VARIABLES
    \* ---- AmazonScraper.scrape
    cfg,            \* CONFIG: [max_products, max_pages]
    site,           \* the web site the run meets: "any" or "synthetic"
    pc,             \* the position of scrape()
    driver,         \* self.driver: "none" (None), "open", "closed" (after quit)
    quits,          \* how many times driver.quit() ran
    page,           \* the loop variable of `for page in range(1, max_pages + 1)`
    dom,            \* what the browser shows: [nodes, source]
    scraped_data,   \* self.scraped_data
    exc,            \* the exception in flight, "none" when there is none
    reason,         \* why the run stopped (the logger call that said so)
    pageEvents,     \* history: what happened on the current page, in order
    navigated,      \* history: the last page driver.get() was called for
    fault,          \* history: where the first exception was raised, and its kind
    accepted_before,\* history: scraped_data when the last navigation began
    usedAfterQuit,  \* history: a driver call was made on a closed session
    \* ---- save_to_db and the products table
    table,          \* the committed rows of products, in insertion order
    dbpc,           \* per connection: the position of save_to_db
    data,           \* per connection: the argument of save_to_db
    idx,            \* per connection: the index of `item` in data
    saved,          \* per connection: the local `saved`
    pending,        \* per connection: rows inserted and not yet committed
    before,         \* history, per connection: table when the call began
    hist,           \* history, per connection: the calls that ended
    \* ---- format_price
    raw_price,      \* the text safe_extract("span.a-offscreen") gave
    price,          \* format_price(raw_price)
    priced,         \* whether format_price has run
    \* ---- _is_blocked
    page_text,      \* driver.page_source: per marker, how the text holds it
    blocked,        \* what _is_blocked returned
    detected        \* whether _is_blocked has run

scrapeVars == <<cfg, site, pc, driver, quits, page, dom, scraped_data, exc, reason,
                pageEvents, navigated, fault, accepted_before, usedAfterQuit>>

storeVars == <<table, dbpc, data, idx, saved, pending, before, hist>>

priceVars == <<raw_price, price, priced>>

detectVars == <<page_text, blocked, detected>>

vars == <<scrapeVars, storeVars, priceVars, detectVars>>

\* ------------------------------------------------------------ page contents
\* A listing node is known by its "h2 span": missing, present with empty
\* text, or present with a text.
NodeKinds == {"none", "empty", "text"}

RECURSIVE SeqsUpTo(_, _)
SeqsUpTo(S, n) ==
    IF n = 0 THEN {<<>>}
    ELSE LET shorter == SeqsUpTo(S, n - 1)
         IN  shorter \cup {Append(s, x) : s \in {t \in shorter : Len(t) = n - 1}, x \in S}

\* The markers _is_blocked looks for in the lower-cased page source.
BlockedSigns == {"sorry, something went wrong", "captcha", "api-services-support@amazon.com"}
ResultMarkers == {"s-search-result", "s-result-item"}

\* The page source of a page with these listing nodes and this other text: a
\* listing is a [data-component-type='s-search-result'] element, so a page
\* that shows one has that marker in its source.
PageOf(nodes, text) ==
    [nodes |-> nodes,
     source |-> text \cup (IF nodes # <<>> THEN {"s-search-result"} ELSE {})]

BlankPage == PageOf(<<>>, {})
CaptchaPage == PageOf(<<>>, {"captcha"})

\* The texts an arbitrary page carries besides its listings.
OtherTexts == {{}, {"captcha"}}

AnyPages == {PageOf(nodes, text) : nodes \in SeqsUpTo(NodeKinds, MaxNodes), text \in OtherTexts}

\* The end-to-end scenario: 3 synthetic pages of 10 titled listings each,
\* none of them blocked, max_products = 15.
E2E == [pages |-> 3, listings |-> 10, max_products |-> 15]

SyntheticPage(n) ==
    IF n <= E2E.pages THEN PageOf([i \in 1..E2E.listings |-> "text"], {}) ELSE BlankPage

\* What driver.get() of result page n may load.
SitePages(s, n) == IF s = "synthetic" THEN {SyntheticPage(n)} ELSE AnyPages

Configs(s) ==
    [max_products : (0..MaxProducts) \cup (IF s = "synthetic" THEN {E2E.max_products} ELSE {}),
     max_pages : 1..MaxPages]

\* --------------------------------------------------------- pure operations
_is_blockedAnyRobot(page_source) ==
    BlockedSigns \cap page_source # {} \/ "robot" \in page_source

\* AmazonScraper._is_blocked over the (lower-cased) page source.
_is_blocked(page_source) ==
    LET has_block_sign == BlockedSigns \cap page_source # {}
        has_no_results == ResultMarkers \cap page_source = {}
    IN  has_block_sign \/ (has_no_results /\ "robot" \in page_source)

\* The listing elements of the page, each with its place <<page, index>>.
Products(p, d) == [i \in 1..Len(d.nodes) |-> [h2 |-> d.nodes[i], node |-> <<p, i>>]]

\* AmazonScraper._extract_product_data: <<>> for None, else <<record>>.  The
\* record keeps the title and the node it came from; the other fields never
\* decide whether a record is made.
_extract_product_data(product) ==
    IF product.h2 = "none"
    THEN <<>>
    ELSE <<[title |-> IF product.h2 = "text" THEN "T" ELSE "", node |-> product.node]>>

RECURSIVE ExtractAll(_)
ExtractAll(products) ==
    IF products = <<>> THEN <<>>
    ELSE LET record == _extract_product_data(Head(products))
         IN  (IF record # <<>> THEN record ELSE <<>>) \o ExtractAll(Tail(products))

Take(s, n) == SubSeq(s, 1, IF n < Len(s) THEN n ELSE Len(s))

\* AmazonScraper._scrape_page: the page's records and what the listing wait did.
_scrape_pageUncapped(products, remaining) ==
    IF remaining <= 0 THEN [page_data |-> <<>>, wait |-> "skipped"]
    ELSE IF products = <<>> THEN [page_data |-> <<>>, wait |-> "wait_timeout"]
    ELSE [page_data |-> ExtractAll(products), wait |-> "wait_ok"]

_scrape_page(products, remaining) ==
    IF remaining <= 0 THEN [page_data |-> <<>>, wait |-> "skipped"]
    ELSE IF products = <<>> THEN [page_data |-> <<>>, wait |-> "wait_timeout"]
    ELSE [page_data |-> ExtractAll(Take(products, remaining)), wait |-> "wait_ok"]

\* ------------------------------------------------------------ AmazonScraper
Faults == {"TimeoutException", "WebDriverException", "Exception"}

\* Where an exception raised in the try block of scrape() lands.
Handler(k) ==
    CASE k = "TimeoutException" -> "except_timeout"
      [] k = "WebDriverException" -> "except_webdriver"
      [] OTHER -> "finally"

NoFault == [site |-> "none", kind |-> "none"]

Raise(k, where) ==
    /\ exc' = k
    /\ pc' = Handler(k)
    /\ fault' = IF fault = NoFault THEN [site |-> where, kind |-> k] ELSE fault

Use == usedAfterQuit' = (usedAfterQuit \/ driver = "closed")

ScrapeInit ==
    /\ site \in {"any", "synthetic"}
    /\ cfg \in Configs(site)
    /\ pc = "start"
    /\ driver = "none"
    /\ quits = 0
    /\ page = 1
    /\ dom = BlankPage
    /\ scraped_data = <<>>
    /\ exc = "none"
    /\ reason = "none"
    /\ pageEvents = <<>>
    /\ navigated = 0
    /\ fault = NoFault
    /\ accepted_before = <<>>
    /\ usedAfterQuit = FALSE

\* self.driver = self._create_driver(), then the branch on _use_scraperapi.
CreateDriver ==
    /\ pc = "start"
    /\ \/ /\ \E use_scraperapi \in BOOLEAN : pc' = IF use_scraperapi THEN "loop" ELSE "home"
          /\ driver' = "open"
          /\ UNCHANGED <<exc, fault>>
       \/ /\ \E k \in {"WebDriverException", "Exception"} : Raise(k, "create")
          /\ UNCHANGED driver
    /\ UNCHANGED <<cfg, site, quits, page, dom, scraped_data, reason, pageEvents,
                   navigated, accepted_before, usedAfterQuit>>
    /\ UNCHANGED <<storeVars, priceVars, detectVars>>

\* self.driver.get("https://www.amazon.com"); self._random_delay(2, 3)
GetHome ==
    /\ pc = "home"
    /\ Use
    /\ \/ /\ pc' = "loop"
          /\ dom' = BlankPage
          /\ UNCHANGED <<exc, fault>>
       \/ /\ \E k \in Faults : Raise(k, "home")
          /\ dom' \in {dom, CaptchaPage}
    /\ UNCHANGED <<cfg, site, driver, quits, page, scraped_data, reason, pageEvents,
                   navigated, accepted_before>>
    /\ UNCHANGED <<storeVars, priceVars, detectVars>>

\* The head of `for page in range(1, CONFIG["max_pages"] + 1)` and the test
\* the body opens with, `if len(self.scraped_data) >= CONFIG["max_products"]`.
LoopHeadOffByOne(p, n, c) ==
    IF p > c.max_pages THEN "exhausted"
    ELSE IF n > c.max_products THEN "break"
    ELSE "body"

LoopHeadMaxFirst(p, n, c) ==
    IF n >= c.max_products THEN "break"
    ELSE IF p > c.max_pages THEN "exhausted"
    ELSE "body"

LoopHead(p, n, c) ==
    IF p > c.max_pages THEN "exhausted"
    ELSE IF n >= c.max_products THEN "break"
    ELSE "body"

\* `if len(self.scraped_data) >= CONFIG["max_products"]: break`
BreakMaxReached ==
    /\ pc = "loop"
    /\ LoopHead(page, Len(scraped_data), cfg) = "break"
    /\ reason' = "max reached"
    /\ pc' = "finally"
    /\ UNCHANGED <<cfg, site, driver, quits, page, dom, scraped_data, exc, pageEvents,
                   navigated, fault, accepted_before, usedAfterQuit>>
    /\ UNCHANGED <<storeVars, priceVars, detectVars>>

\* range(1, max_pages + 1) is used up.
LoopExhausted ==
    /\ pc = "loop"
    /\ LoopHead(page, Len(scraped_data), cfg) = "exhausted"
    /\ reason' = "page limit"
    /\ pc' = "finally"
    /\ UNCHANGED <<cfg, site, driver, quits, page, dom, scraped_data, exc, pageEvents,
                   navigated, fault, accepted_before, usedAfterQuit>>
    /\ UNCHANGED <<storeVars, priceVars, detectVars>>

\* self.driver.get(self._build_url(page_url))
Navigate ==
    /\ pc = "loop"
    /\ LoopHead(page, Len(scraped_data), cfg) = "body"
    /\ Use
    /\ navigated' = page
    /\ accepted_before' = scraped_data
    /\ pageEvents' = <<"nav">>
    /\ \/ /\ dom' \in SitePages(site, page)
          /\ pc' = "loaded"
          /\ UNCHANGED <<exc, fault>>
       \/ /\ \E k \in Faults : Raise(k, "nav")
          /\ dom' \in {dom, CaptchaPage}
    /\ UNCHANGED <<cfg, site, driver, quits, page, scraped_data, reason>>
    /\ UNCHANGED <<storeVars, priceVars, detectVars>>

CheckBlockedSkipped ==
    /\ pc = "loaded"
    /\ Use
    /\ pc' = "page"
    /\ UNCHANGED <<cfg, site, driver, quits, page, dom, scraped_data, exc, reason,
                   pageEvents, navigated, fault, accepted_before>>
    /\ UNCHANGED <<storeVars, priceVars, detectVars>>

\* self._random_delay(2, 4); self._human_scroll(); if self._is_blocked(): break
CheckBlocked ==
    /\ pc = "loaded"
    /\ Use
    /\ \/ /\ pageEvents' = Append(pageEvents, "check")
          /\ IF _is_blocked(dom.source)
             THEN reason' = "blocked" /\ pc' = "finally"
             ELSE reason' = reason /\ pc' = "page"
          /\ UNCHANGED <<exc, fault>>
       \/ /\ \E k \in Faults : Raise(k, "check")
          /\ UNCHANGED <<pageEvents, reason>>
    /\ UNCHANGED <<cfg, site, driver, quits, page, dom, scraped_data,
                   navigated, accepted_before>>
    /\ UNCHANGED <<storeVars, priceVars, detectVars>>

\* page_data = self._scrape_page(page); self.scraped_data.extend(page_data);
\* if not page_data: break
ScrapePage ==
    /\ pc = "page"
    /\ Use
    /\ \/ LET r == _scrape_page(Products(page, dom), cfg.max_products - Len(scraped_data))
          IN  /\ pageEvents' = Append(pageEvents, r.wait)
              /\ scraped_data' = scraped_data \o r.page_data
              /\ IF r.page_data = <<>>
                 THEN reason' = "no more products" /\ pc' = "finally" /\ page' = page
                 ELSE reason' = reason /\ pc' = "loop" /\ page' = page + 1
              /\ UNCHANGED <<exc, fault>>
       \/ /\ \E k \in {"WebDriverException", "Exception"} : Raise(k, "page")
          /\ UNCHANGED <<pageEvents, scraped_data, reason, page>>
    /\ UNCHANGED <<cfg, site, driver, quits, dom, navigated, accepted_before>>
    /\ UNCHANGED <<storeVars, priceVars, detectVars>>

\* except TimeoutException: if self._is_blocked(): ... else: ...; return self.scraped_data
HandleTimeout ==
    /\ pc = "except_timeout"
    /\ Use
    /\ pc' = "finally"
    /\ \/ /\ pageEvents' = Append(pageEvents, "check")
          /\ reason' = IF _is_blocked(dom.source) THEN "blocked" ELSE "timeout"
          /\ exc' = "none"
       \/ /\ exc' \in Faults
          /\ UNCHANGED <<pageEvents, reason>>
    /\ UNCHANGED <<cfg, site, driver, quits, page, dom, scraped_data,
                   navigated, fault, accepted_before>>
    /\ UNCHANGED <<storeVars, priceVars, detectVars>>

\* except WebDriverException as e: ...; return self.scraped_data
HandleWebDriver ==
    /\ pc = "except_webdriver"
    /\ pc' = "finally"
    /\ reason' = "webdriver error"
    /\ exc' = "none"
    /\ UNCHANGED <<cfg, site, driver, quits, page, dom, scraped_data, pageEvents,
                   navigated, fault, accepted_before, usedAfterQuit>>
    /\ UNCHANGED <<storeVars, priceVars, detectVars>>

\* finally: if self.driver: self.driver.quit()
FinallyNoQuitOnRaise ==
    /\ pc = "finally"
    /\ IF driver # "none" /\ exc = "none"
       THEN driver' = "closed" /\ quits' = quits + 1
       ELSE UNCHANGED <<driver, quits>>
    /\ pc' = IF exc = "none" THEN "returned" ELSE "raised"
    /\ UNCHANGED <<cfg, site, page, dom, scraped_data, exc, reason, pageEvents,
                   navigated, fault, accepted_before, usedAfterQuit>>
    /\ UNCHANGED <<storeVars, priceVars, detectVars>>

Finally ==
    /\ pc = "finally"
    /\ IF driver # "none"
       THEN driver' = "closed" /\ quits' = quits + 1
       ELSE UNCHANGED <<driver, quits>>
    /\ pc' = IF exc = "none" THEN "returned" ELSE "raised"
    /\ UNCHANGED <<cfg, site, page, dom, scraped_data, exc, reason, pageEvents,
                   navigated, fault, accepted_before, usedAfterQuit>>
    /\ UNCHANGED <<storeVars, priceVars, detectVars>>

ScrapeNext ==
    \/ CreateDriver
    \/ GetHome
    \/ BreakMaxReached
    \/ LoopExhausted
    \/ Navigate
    \/ CheckBlocked
    \/ ScrapePage
    \/ HandleTimeout
    \/ HandleWebDriver
    \/ Finally


\* ------------------------------------------------- the products table (SQLite)
Clients == {1, 2}

\* The values of item["product_url"] the extractor produces: its default
\* "N/A", or a product link (an absolute URL up to "/ref=", never empty).
Urls == {"N/A", "u1", "u2"}

\* A column value is NULL or <<text>>.
NULL == <<>>

\* The records of a call: the i-th one has the i-th title, so the records of
\* one call are distinct records whatever their URLs.
Records(urls) == [i \in 1..Len(urls) |-> [title |-> i, product_url |-> urls[i]]]

\* `url if url != "N/A" else None`, the product_url bound to the INSERT.
SqlValueLiteral(url) == <<url>>

SqlValue(url) == IF url # "N/A" THEN <<url>> ELSE NULL

Row(item) == [title |-> item.title, product_url |-> SqlValue(item.product_url)]

\* `if url and url != "N/A"`: whether the duplicate check runs for this URL.
NeedsCheck(url) == url # "" /\ url # "N/A"

\* SELECT 1 FROM products WHERE product_url = ?  (then cursor.fetchone())
ExistsNever(rows, url) == FALSE

Exists(rows, url) == \E i \in 1..Len(rows) : rows[i].product_url = <<url>>

\* product_url TEXT UNIQUE: an insert of a non-NULL value some row holds fails.
UniqueViolationOff(rows, v) == FALSE

UniqueViolation(rows, v) == v # NULL /\ \E i \in 1..Len(rows) : rows[i].product_url = v

IsUnique(rows) ==
    \A i, j \in 1..Len(rows) :
        (i # j /\ rows[i].product_url = rows[j].product_url) => rows[i].product_url = NULL

\* What connection c reads: the committed rows and its own uncommitted ones.
View(c) == table \o pending[c]

\* SQLite has one writer: a connection with uncommitted inserts holds the
\* write lock until it commits or closes.
Locked(c) == \E d \in Clients \ {c} : pending[d] # <<>>

\* The tables a run may start from: what earlier runs of the program stored.
InitialTables ==
    {t \in SeqsUpTo([title : {0}, product_url : {NULL, <<"u1">>, <<"u2">>}], MaxRows) :
        IsUnique(t)}

StoreIdle ==
    /\ table = <<>>
    /\ dbpc = [c \in Clients |-> "idle"]
    /\ data = [c \in Clients |-> <<>>]
    /\ idx = [c \in Clients |-> 0]
    /\ saved = [c \in Clients |-> 0]
    /\ pending = [c \in Clients |-> <<>>]
    /\ before = [c \in Clients |-> <<>>]
    /\ hist = [c \in Clients |-> <<>>]

\* The position after item idx[c] is done with: the next item, or conn.commit().
After(c) == IF idx[c] >= Len(data[c]) THEN "commit" ELSE "loop"

\* The call of connection c ends: by a return of `saved`, or by an exception
\* (the with block closes the connection, which rolls its inserts back).
Ended(c, raised, after) ==
    /\ hist' = [hist EXCEPT ![c] = Append(@, [data |-> data[c], before |-> before[c],
                                              after |-> after, raised |-> raised,
                                              count |-> IF raised = "none" THEN saved[c] ELSE 0,
                                              at |-> IF raised = "none" THEN 0 ELSE idx[c]])]
    /\ dbpc' = [dbpc EXCEPT ![c] = "idle"]
    /\ pending' = [pending EXCEPT ![c] = <<>>]

\* save_to_db(data) is entered: saved = 0, the connection and its cursor open.
Enter(c, d) ==
    /\ dbpc[c] = "idle"
    /\ data' = [data EXCEPT ![c] = d]
    /\ idx' = [idx EXCEPT ![c] = 1]
    /\ saved' = [saved EXCEPT ![c] = 0]
    /\ before' = [before EXCEPT ![c] = table]
    /\ dbpc' = [dbpc EXCEPT ![c] = IF d = <<>> THEN "commit" ELSE "loop"]
    /\ UNCHANGED <<table, pending, hist>>
    /\ UNCHANGED <<scrapeVars, priceVars, detectVars>>

\* The first call of a connection, with any list of records.
SaveToDb(c) ==
    /\ hist[c] = <<>>
    /\ \E urls \in SeqsUpTo(Urls, MaxBatch) : Enter(c, Records(urls))

\* The same records are persisted a second time.
SaveAgain(c) ==
    /\ Len(hist[c]) = 1
    /\ Enter(c, hist[c][1].data)

\* `url = item["product_url"]`, and for a valid URL the duplicate check:
\* `continue` when the SELECT finds a row.
CheckDuplicate(c) ==
    /\ dbpc[c] = "loop"
    /\ LET url == data[c][idx[c]].product_url
       IN  IF NeedsCheck(url) /\ Exists(View(c), url)
           THEN /\ idx' = [idx EXCEPT ![c] = @ + 1]
                /\ dbpc' = [dbpc EXCEPT ![c] = After(c)]
           ELSE /\ dbpc' = [dbpc EXCEPT ![c] = "insert"]
                /\ UNCHANGED idx
    /\ UNCHANGED <<table, data, saved, pending, before, hist>>
    /\ UNCHANGED <<scrapeVars, priceVars, detectVars>>

\* cursor.execute("INSERT INTO products ..."); saved += 1.  The UNIQUE
\* constraint raises sqlite3.IntegrityError.
Insert(c) ==
    /\ dbpc[c] = "insert"
    /\ ~Locked(c)
    /\ LET row == Row(data[c][idx[c]])
       IN  IF UniqueViolation(View(c), row.product_url)
           THEN /\ Ended(c, "IntegrityError", table)
                /\ UNCHANGED <<idx, saved>>
           ELSE /\ pending' = [pending EXCEPT ![c] = Append(@, row)]
                /\ saved' = [saved EXCEPT ![c] = @ + 1]
                /\ idx' = [idx EXCEPT ![c] = @ + 1]
                /\ dbpc' = [dbpc EXCEPT ![c] = After(c)]
                /\ UNCHANGED hist
    /\ UNCHANGED <<table, data, before>>
    /\ UNCHANGED <<scrapeVars, priceVars, detectVars>>

\* The INSERT waits for another connection's write lock and the busy timeout
\* of sqlite3.connect runs out: sqlite3.OperationalError (database is locked).
BusyTimeout(c) ==
    /\ dbpc[c] = "insert"
    /\ Locked(c)
    /\ Ended(c, "OperationalError", table)
    /\ UNCHANGED <<table, data, idx, saved, before>>
    /\ UNCHANGED <<scrapeVars, priceVars, detectVars>>

StorageFaultKeepsRows(c) ==
    /\ dbpc[c] = "insert"
    /\ ~Locked(c)
    /\ table' = table \o pending[c]
    /\ Ended(c, "OperationalError", table \o pending[c])
    /\ UNCHANGED <<data, idx, saved, before>>
    /\ UNCHANGED <<scrapeVars, priceVars, detectVars>>

\* The INSERT fails in the storage layer (disk full, I/O error):
\* sqlite3.OperationalError leaves the with block before conn.commit(), and
\* conn.close() discards the inserts the call made so far.
StorageFault(c) ==
    /\ dbpc[c] = "insert"
    /\ ~Locked(c)
    /\ Ended(c, "OperationalError", table)
    /\ UNCHANGED <<table, data, idx, saved, before>>
    /\ UNCHANGED <<scrapeVars, priceVars, detectVars>>

\* conn.commit(); return saved
Commit(c) ==
    /\ dbpc[c] = "commit"
    /\ table' = table \o pending[c]
    /\ Ended(c, "none", table \o pending[c])
    /\ UNCHANGED <<data, idx, saved, before>>
    /\ UNCHANGED <<scrapeVars, priceVars, detectVars>>

\* -------------------------------------------------------------- format_price
\* A text is a sequence of characters.
Chars == {" ", "$", "7", "N", "/", "A"}
Digits == {"7"}
NA == <<"N", "/", "A">>

RECURSIVE LStrip(_)
LStrip(s) == IF s # <<>> /\ Head(s) = " " THEN LStrip(Tail(s)) ELSE s

RECURSIVE RStrip(_)
RStrip(s) == IF s # <<>> /\ s[Len(s)] = " " THEN RStrip(SubSeq(s, 1, Len(s) - 1)) ELSE s

\* str.strip()
Strip(s) == RStrip(LStrip(s))

format_priceNoStrip(price_text) ==
    IF price_text = <<>> \/ price_text = NA THEN NA ELSE price_text

format_price(price_text) ==
    IF price_text = <<>> \/ price_text = NA THEN NA ELSE Strip(price_text)

PriceIdle ==
    /\ raw_price = <<>>
    /\ price = <<>>
    /\ priced = FALSE

\* raw_price = safe_extract("span.a-offscreen", "innerHTML"); price = format_price(raw_price)
ExtractPrice ==
    /\ ~priced
    /\ price' = format_price(raw_price)
    /\ priced' = TRUE
    /\ UNCHANGED raw_price
    /\ UNCHANGED <<scrapeVars, storeVars, detectVars>>

\* ---------------------------------------------------------------- _is_blocked
\* The phrases _is_blocked searches for.
Markers == BlockedSigns \cup ResultMarkers \cup {"robot"}

\* How a page text holds a phrase: not at all, in lower case as the code
\* spells it, or with capitals ("CAPTCHA", "Robot").
Spellings == {"absent", "lower", "capital"}

\* str.lower(), and then which phrases `x in page_source` finds.
Lower(text) == {m \in Markers : text[m] # "absent"}

DetectIdle ==
    /\ page_text = [m \in Markers |-> "absent"]
    /\ blocked = FALSE
    /\ detected = FALSE

\* page_source = self.driver.page_source.lower(); return has_block_sign or (...)
Detect ==
    /\ ~detected
    /\ blocked' = _is_blocked(Lower(page_text))
    /\ detected' = TRUE
    /\ UNCHANGED page_text
    /\ UNCHANGED <<scrapeVars, storeVars, priceVars>>

\* ------------------------------------------------------------ specifications
\* One run of AmazonScraper.scrape.
Init == ScrapeInit /\ StoreIdle /\ PriceIdle /\ DetectIdle

Next == ScrapeNext

Spec == Init /\ [][Next]_vars

ScrapeIdle ==
    /\ site = "any"
    /\ cfg = [max_products |-> 0, max_pages |-> 1]
    /\ pc = "returned"
    /\ driver = "none"
    /\ quits = 0
    /\ page = 1
    /\ dom = BlankPage
    /\ scraped_data = <<>>
    /\ exc = "none"
    /\ reason = "none"
    /\ pageEvents = <<>>
    /\ navigated = 0
    /\ fault = NoFault
    /\ accepted_before = <<>>
    /\ usedAfterQuit = FALSE

\* One connection persists a list of records, then the same list again.
StoreInit ==
    /\ ScrapeIdle
    /\ PriceIdle
    /\ DetectIdle
    /\ table \in InitialTables
    /\ dbpc = [c \in Clients |-> "idle"]
    /\ data = [c \in Clients |-> <<>>]
    /\ idx = [c \in Clients |-> 0]
    /\ saved = [c \in Clients |-> 0]
    /\ pending = [c \in Clients |-> <<>>]
    /\ before = [c \in Clients |-> <<>>]
    /\ hist = [c \in Clients |-> <<>>]

StoreNext ==
    \/ SaveToDb(1)
    \/ SaveAgain(1)
    \/ CheckDuplicate(1)
    \/ Insert(1)
    \/ Commit(1)

SpecStore == StoreInit /\ [][StoreNext]_vars

\* Two connections persist one list of records each, at the same time, into
\* a table that is empty before them.
ConcInit ==
    /\ ScrapeIdle
    /\ PriceIdle
    /\ DetectIdle
    /\ StoreIdle

ConcNext ==
    \E c \in Clients :
        \/ SaveToDb(c)
        \/ CheckDuplicate(c)
        \/ Insert(c)
        \/ BusyTimeout(c)
        \/ Commit(c)

SpecConc == ConcInit /\ [][ConcNext]_vars

\* Two connections persist concurrently, and an INSERT may fail in the
\* storage layer.
FaultNext ==
    \/ ConcNext
    \/ \E c \in Clients : StorageFault(c)

SpecFault == ConcInit /\ [][FaultNext]_vars

\* format_price applied to one raw price text.
PriceInit ==
    /\ ScrapeIdle
    /\ StoreIdle
    /\ DetectIdle
    /\ raw_price \in SeqsUpTo(Chars, MaxLen)
    /\ price = <<>>
    /\ priced = FALSE

PriceNext == ExtractPrice

SpecPrice == PriceInit /\ [][PriceNext]_vars

\* _is_blocked applied to one page text.
DetectInit ==
    /\ ScrapeIdle
    /\ StoreIdle
    /\ PriceIdle
    /\ page_text \in [Markers -> Spellings]
    /\ blocked = FALSE
    /\ detected = FALSE

DetectNext == Detect

SpecDetect == DetectInit /\ [][DetectNext]_vars

\* -------------------------------------------------------------------- claims
Terminal == {"returned", "raised"}

\* C1: in AmazonScraper.scrape, whatever the pages hold and whatever
\* max_products >= 0 and max_pages >= 1 are, scraped_data never holds more
\* than max_products records at any point of the run, so neither does the
\* returned list.
C1_NeverMoreThanMax == Len(scraped_data) <= cfg.max_products

\* The cap bites: the page just scraped held more titled listings than were
\* taken from it, and scraped_data stands at max_products.
C1_CapBites ==
    /\ pc = "loop"
    /\ pageEvents = <<"nav", "check", "wait_ok">>
    /\ cfg.max_products > 0
    /\ Len(scraped_data) = cfg.max_products
    /\ Len(ExtractAll(Products(navigated, dom))) > Len(scraped_data) - Len(accepted_before)

\* The end-to-end scenario, met without any exception.
E2EScenario ==
    /\ site = "synthetic"
    /\ cfg.max_products = E2E.max_products
    /\ cfg.max_pages >= E2E.pages
    /\ fault = NoFault

\* The 10 listings of page 1, then the first 5 of page 2.
E2EExpected ==
    [i \in 1..15 |-> [title |-> "T", node |-> IF i <= 10 THEN <<1, i>> ELSE <<2, i - 10>>]]

\* C2: given 3 pages of 10 titled listings each, none blocked,
\* max_products = 15 and max_pages >= 3, scrape never navigates to page 3,
\* always has a next step until it ends, and ends by returning exactly the 15
\* records (10 of page 1, the first 5 of page 2) with the reason "max reached".
C2_EndToEnd ==
    E2EScenario =>
        /\ navigated <= 2
        /\ pc \notin Terminal => ENABLED Next
        /\ pc \in Terminal =>
              /\ pc = "returned"
              /\ scraped_data = E2EExpected
              /\ reason = "max reached"

C2_EndToEndReturned == E2EScenario /\ pc = "returned" /\ Len(scraped_data) = 15

\* C6: a scrape that created a browser session closes it exactly once on
\* every exit path (return, break, either handler, an exception raised inside
\* a handler, an exception no handler catches): quit() runs once and only as
\* the last step, no driver call follows it, and scrape always has a next
\* step until it has returned or raised.
C6_SessionClosedOnce ==
    /\ quits <= 1
    /\ (quits = 1) <=> (driver = "closed")
    /\ ~usedAfterQuit
    /\ driver = "closed" => pc \in Terminal
    /\ (pc \in Terminal /\ driver # "none") => quits = 1
    /\ pc \notin Terminal => ENABLED Next

\* The exit path of an exception raised inside the timeout handler.
C6_ClosedAfterHandlerRaised ==
    /\ pc = "raised"
    /\ fault.kind = "TimeoutException"
    /\ exc # "none"
    /\ quits = 1

Consulted(i) == \E j \in 1..(i - 1) : pageEvents[j] = "check"

\* C7 as stated: the Blocking Detector is consulted (a) after every
\* navigation, before the listing wait and the extraction on that page, and
\* (b) every time the listing wait times out, before the run reports why it
\* stopped.
C7_DetectorOnWaitTimeout ==
    /\ \A i \in 1..Len(pageEvents) :
          pageEvents[i] \in {"wait_ok", "wait_timeout"} => Consulted(i)
    /\ pc \in Terminal =>
          \A i \in 1..Len(pageEvents) :
              pageEvents[i] = "wait_timeout" =>
                  \E j \in (i + 1)..Len(pageEvents) : pageEvents[j] = "check"

\* C7 as amended: the detector is consulted (a) after every navigation,
\* before the listing wait and the extraction on that page, and (b) when a
\* TimeoutException reaches the handler of scrape (a page load that timed
\* out), where it decides between "blocked" and "timeout".  A listing wait
\* that times out is not followed by a consultation: the page, on which the
\* detector was false after the navigation, is reported as the last page.
C7_DetectorAfterNavigation ==
    /\ \A i \in 1..Len(pageEvents) :
          pageEvents[i] \in {"wait_ok", "wait_timeout"} => Consulted(i)
    /\ \A i \in 1..Len(pageEvents) :
          pageEvents[i] = "wait_timeout" =>
              /\ i = Len(pageEvents)
              /\ BlockedSigns \cap dom.source = {}
              /\ reason = "no more products"
    /\ (pc = "returned" /\ fault.kind = "TimeoutException") =>
          /\ pageEvents # <<>>
          /\ pageEvents[Len(pageEvents)] = "check"
          /\ reason \in {"blocked", "timeout"}
          /\ (reason = "blocked") <=> _is_blocked(dom.source)

\* A listing wait timed out and the run ended without a second consultation.
C7_WaitTimedOut ==
    /\ pc = "returned"
    /\ pageEvents = <<"nav", "check", "wait_timeout">>
    /\ scraped_data # <<>>

\* C8: when driver.get() of page k fails with a timeout or another driver
\* exception, scrape returns to its caller, and what it returns is the
\* records accepted on pages 1..k-1, in order and unchanged.
C8_PartialResultsReturned ==
    (/\ pc \in Terminal
     /\ fault.site = "nav"
     /\ fault.kind \in {"TimeoutException", "WebDriverException"})
        => (pc = "returned" /\ scraped_data = accepted_before)

\* C10: every record scrape emits has a non-empty title.
C10_TitlesNonEmpty ==
    \A i \in 1..Len(scraped_data) : scraped_data[i].title # ""

\* A URL is the product_url of some row.
InStore(rows, url) == \E i \in 1..Len(rows) : rows[i].product_url = <<url>>

UrlsOf(d) == {d[i].product_url : i \in 1..Len(d)}

\* Every record has a URL other than "N/A", none of them stored beforehand.
FreshUrls(h) ==
    \A u \in UrlsOf(h.data) : u # "N/A" /\ ~InStore(h.before, u)

PersistedTwice(c, pre(_)) ==
    (Len(hist[c]) >= 1 /\ pre(hist[c][1])) =>
        /\ hist[c][1].raised = "none"
        /\ hist[c][1].count = Len(hist[c][1].data)
        /\ Len(hist[c]) = 2 =>
              /\ hist[c][2].raised = "none"
              /\ hist[c][2].count = 0
              /\ hist[c][2].after = hist[c][1].after

\* C3 as stated: persisting the same N records twice, each with a URL other
\* than "N/A" and none of the URLs stored beforehand, returns N and then 0,
\* and the second call leaves the table as the first left it.
C3_SameRecordsTwice ==
    LET pre(h) == FreshUrls(h) IN PersistedTwice(1, pre)

DistinctRealUrls(h) ==
    /\ FreshUrls(h)
    /\ "" \notin UrlsOf(h.data)
    /\ Cardinality(UrlsOf(h.data)) = Len(h.data)

\* C3 as amended: the same holds when the N records have N different,
\* non-empty URLs.
C3_DistinctUrlsTwice ==
    LET pre(h) == DistinctRealUrls(h) IN PersistedTwice(1, pre)

C3_TwoRecordsTwice ==
    /\ Len(hist[1]) = 2
    /\ DistinctRealUrls(hist[1][1])
    /\ Len(hist[1][1].data) = 2
    /\ hist[1][1].before # <<>>
    /\ hist[1][1].count = 2
    /\ hist[1][2].count = 0

NACount(d) == Cardinality({i \in 1..Len(d) : d[i].product_url = "N/A"})

NullRows(rows) == Cardinality({i \in 1..Len(rows) : rows[i].product_url = NULL})

\* C4: a record whose product_url is "N/A" is stored with a NULL key, never
\* the string "N/A", and is never skipped as a duplicate: a call that returns
\* has added one NULL row per such record, and a call given only such
\* records (two of them, say) returns their number and adds that many rows,
\* whatever the table held.
C4_NANeverDeduplicated ==
    /\ ~InStore(table, "N/A")
    /\ \A c \in Clients :
          /\ ~InStore(pending[c], "N/A")
          /\ \A k \in 1..Len(hist[c]) :
                LET h == hist[c][k]
                IN  /\ h.raised = "none" =>
                          /\ NullRows(h.after) = NullRows(h.before) + NACount(h.data)
                          /\ h.count >= NACount(h.data)
                    /\ NACount(h.data) = Len(h.data) =>
                          /\ h.raised = "none"
                          /\ h.count = Len(h.data)
                          /\ Len(h.after) = Len(h.before) + Len(h.data)

\* Two "N/A" records are persisted into a table that holds NULL rows already.
C4_TwoNARecords ==
    \E k \in 1..Len(hist[1]) :
        /\ Len(hist[1][k].data) = 2
        /\ NACount(hist[1][k].data) = 2
        /\ NullRows(hist[1][k].before) >= 1
        /\ hist[1][k].count = 2
        /\ NullRows(hist[1][k].after) = NullRows(hist[1][k].before) + 2

\* C5: under any interleaving of concurrent save_to_db calls, the products
\* table never holds two rows with the same non-NULL product_url.
C5_NoDuplicateUrl ==
    \A i, j \in 1..Len(table) :
        (i # j /\ table[i].product_url # NULL) => table[i].product_url # table[j].product_url

\* Both connections passed the duplicate check for one URL, one committed it
\* and the UNIQUE constraint rejected the other's insert.
C5_SecondInsertRejected ==
    \E c \in Clients : \E k \in 1..Len(hist[c]) :
        LET h == hist[c][k]
        IN  /\ h.raised = "IntegrityError"
            /\ NeedsCheck(h.data[h.at].product_url)
            /\ InStore(table, h.data[h.at].product_url)

NoDigit(s) == \A i \in 1..Len(s) : s[i] \notin Digits

\* C9 as stated: for every raw price text without a digit, format_price
\* returns "N/A".
C9_NoDigitGivesNA == (priced /\ NoDigit(raw_price)) => price = NA

Spaces(n) == [i \in 1..n |-> " "]

\* out is raw without its leading and trailing blanks.
IsTrimOf(out, raw) ==
    /\ out # <<>> => (out[1] # " " /\ out[Len(out)] # " ")
    /\ \E i, j \in 0..Len(raw) : raw = Spaces(i) \o out \o Spaces(j)

\* C9 as amended: for a raw price text without a digit, format_price returns
\* "N/A" when the text is empty or is "N/A", and otherwise the text without
\* its leading and trailing blanks.
C9_NoDigitTrimmed ==
    (priced /\ NoDigit(raw_price)) =>
        IF raw_price = <<>> \/ raw_price = NA THEN price = NA ELSE IsTrimOf(price, raw_price)

C9_SymbolKept ==
    /\ priced
    /\ NoDigit(raw_price)
    /\ raw_price \notin {<<>>, NA}
    /\ Len(price) < Len(raw_price)
    /\ price # <<>>
    /\ price # NA

\* The text holds the phrase, in whatever case.
Contains(m) == page_text[m] # "absent"

\* C11: _is_blocked is a predicate of the page text alone: it is true exactly
\* when the lower-cased text contains one of the three block-signature
\* phrases, or contains neither result-container marker and contains
\* "robot"; so it is true on any text with "captcha" and false on a text
\* with a result-container marker and no block-signature phrase.
C11_BlockedExactly ==
    detected =>
        /\ blocked <=>
              \/ Contains("sorry, something went wrong")
              \/ Contains("captcha")
              \/ Contains("api-services-support@amazon.com")
              \/ /\ ~Contains("s-search-result")
                 /\ ~Contains("s-result-item")
                 /\ Contains("robot")
        /\ Contains("captcha") => blocked
        /\ ((Contains("s-search-result") \/ Contains("s-result-item"))
              /\ \A m \in BlockedSigns : ~Contains(m)) => ~blocked

\* A result page that mentions "Robot" and no block-signature phrase.
C11_RobotOnResultPage ==
    /\ detected
    /\ page_text["robot"] = "capital"
    /\ page_text["s-result-item"] = "lower"
    /\ \A m \in BlockedSigns : ~Contains(m)
    /\ ~blocked

\* The run has stopped without any exception.
Stopped == pc \in Terminal /\ fault = NoFault

\* The run stopped on the page it had loaded last.
OnPage == navigated = page

\* The reason the run stopped for, in the words of the terminal conditions: a
\* page without records is "no more pages" when its listing wait timed out
\* and "exhausted" when listings were found and none gave a record.
StopReason ==
    IF reason = "no more products"
    THEN IF pageEvents[Len(pageEvents)] = "wait_timeout" THEN "no more pages" ELSE "exhausted"
    ELSE reason

\* Whether a terminal condition holds where the run stopped.
Holds(condition) ==
    CASE condition = "max reached" -> Len(scraped_data) >= cfg.max_products
      [] condition = "page limit" -> page > cfg.max_pages
      [] condition = "blocked" -> OnPage /\ _is_blocked(dom.source)
      [] condition = "no more pages" -> OnPage /\ dom.nodes = <<>>
      [] condition = "exhausted" ->
            /\ OnPage
            /\ \A i \in 1..Len(dom.nodes) :
                  i <= cfg.max_products - Len(scraped_data) => dom.nodes[i] = "none"

\* The run stopped for the first condition of the order that holds.
StopsForEarliest(order) ==
    Stopped =>
        \E i \in 1..Len(order) :
            /\ Holds(order[i])
            /\ \A j \in 1..(i - 1) : ~Holds(order[j])
            /\ StopReason = order[i]

\* C12 as stated: when several terminal conditions hold, the run stops for
\* the earliest of (1) max_products reached, (2) the listing wait timed out,
\* (3) the Blocking Detector is true, (4) the page gave no record, (5) the
\* page counter exceeds max_pages.
C12_ClaimedPriority ==
    StopsForEarliest(<<"max reached", "no more pages", "blocked", "exhausted", "page limit">>)

\* C12 as amended: the order is (1) the page counter exceeds max_pages,
\* (2) max_products reached, (3) the Blocking Detector is true, (4) the
\* listing wait timed out, (5) the page gave no record.
C12_CodePriority ==
    StopsForEarliest(<<"page limit", "max reached", "blocked", "no more pages", "exhausted">>)

\* A blocked page without listings: the detector and the listing wait both
\* stop the run, and it stops as blocked.
C12_BlockedBeforeTimeout ==
    /\ Stopped
    /\ Holds("blocked")
    /\ Holds("no more pages")
    /\ StopReason = "blocked"

\* The counts returned by the calls of a history.
RECURSIVE ReturnedCounts(_)
ReturnedCounts(h) ==
    IF h = <<>> THEN 0
    ELSE (IF Head(h).raised = "none" THEN Head(h).count ELSE 0) + ReturnedCounts(Tail(h))

\* What the other connection committed, when it returned.
CommittedByOther(c) ==
    UNION {{hist[d][k].after : k \in {j \in 1..Len(hist[d]) : hist[d][j].raised = "none"}} :
              d \in Clients \ {c}}

\* C13: save_to_db is all-or-nothing per call: the store holds the rows of
\* the calls that returned and no others, and a call whose insert raised
\* leaves the store as it was before the call (or as the other connection
\* committed it meanwhile), with none of the rows it had inserted.
C13_AllOrNothing ==
    /\ Len(table) = ReturnedCounts(hist[1]) + ReturnedCounts(hist[2])
    /\ \A c \in Clients : \A k \in 1..Len(hist[c]) :
          hist[c][k].raised # "none" =>
              /\ hist[c][k].count = 0
              /\ hist[c][k].after \in {hist[c][k].before} \cup CommittedByOther(c)

\* An insert raised after the call had inserted a record, and the store is
\* as it was before the call.
C13_RaisedAfterInsert ==
    \E c \in Clients :
        /\ hist[c] # <<>>
        /\ hist[c][1].raised = "OperationalError"
        /\ hist[c][1].at >= 2
        /\ saved[c] >= 1
        /\ dbpc[c] = "idle"
        /\ table = hist[c][1].before

====
